---- MODULE Spec2Model ----
(***************************************************************************)
(* The authenticated request pipeline of MoncashSDK (src/unnamed/part_000): *)
(* the token slot, getAccessToken, makeRequest with its retry on HTTP 401,  *)
(* and the four operation methods.  One client instance is used by callers  *)
(* 1..NumOps; a caller awaits each operation before it calls the next, and  *)
(* the operations of different callers interleave at the awaits of the      *)
(* code.  The gateway is the environment: it answers each HTTP call with    *)
(* any outcome.  Spec runs one caller against the whole environment;        *)
(* SpecConc runs all callers against RetrieveOrderPayment.                  *)
(*                                                                          *)
(* Encodings.  A JavaScript value that may be null/undefined is a sequence  *)
(* of length 0 or 1 (<<>> is null/undefined).  A string the code trims is a *)
(* sequence of characters.  An access token is a string; "undefined" stands *)
(* for a missing access_token field and "" for the empty string.            *)
(***************************************************************************)
EXTENDS Integers, Sequences, FiniteSets, TLC

VARIABLES
    now,          \* Date.now(), in milliseconds
    maxRetries,   \* this.maxRetries
    tokenData,    \* this.tokenData: <<>> (null) or <<[accessToken, expiresAt]>>
    issued,       \* number of access tokens the gateway has issued so far
    acquired,     \* when and with which expires_in the slot was last set (ghost)
    config,       \* this.config: clientId and clientSecret, strings of UTF-16 units
    basic,        \* what the last token request carried after "Basic " (ghost)
    calls,        \* number of operations called so far
    pc,           \* per caller: where its operation stands
    endpoint,     \* per caller: the endpoint of its makeRequest
    data,         \* per caller: the request parameters (body) it passed
    retryCount,   \* per caller: retryCount of the current makeRequest
    accessToken,  \* per caller: the local accessToken of makeRequest
    out,          \* per caller: how the call settled
    args,         \* per caller: the operation called and its arguments (ghost)
    entry,        \* per caller: the slot when makeRequest was entered (ghost)
    log           \* per caller: history of what its operation did (ghost)

vars == <<now, maxRetries, tokenData, issued, acquired, config, basic, calls, pc, endpoint, data, retryCount,
          accessToken, out, args, entry, log>>

----------------------------------------------------------------------------
\* Bounds of the model

NumOps == 2
MaxCalls == 2
MaxCfgRetries == 2
MaxSeqRetries == 1
MaxTicks == 2
MaxCredLen == 2

Ops == 1..NumOps

----------------------------------------------------------------------------
\* Program constants

DefaultMaxRetries == 3
MinTtlSec == 30
MsPerSec == 1000
SafetyMarginMs == 10000
Unauthorized == 401
NotFound == 404
RequestTimeout == 408

\* Endpoints enum
CREATE_PAYMENT == "/v1/CreatePayment"
RETRIEVE_TRANSACTION == "/v1/RetrieveTransactionPayment"
RETRIEVE_ORDER == "/v1/RetrieveOrderPayment"
TRANSFER == "/v1/TransFer"

----------------------------------------------------------------------------
\* The environment: what callers pass and what the gateway answers

\* config.maxRetries: <<>> when the caller leaves it out
CfgRetries == {<<>>} \cup {<<n>> : n \in 0..MaxCfgRetries}

\* identifiers (orderId, transactionId, receiver) as character sequences
Ids == {<<>>, <<" ">>, <<"X">>, <<" ", "Y">>}
Amounts == {0, 10}

\* HTTP statuses the gateway answers with
Statuses == {200, 401, 404, 500}

\* raw response bodies: a JSON object with payment_token, a JSON object with
\* error.message and no payment_token, and text that is not JSON
BadBody == "<html>"
Bodies == {"p1", "e1", BadBody}

\* expires_in values (seconds) of a token response
ExpiresIns == {5, 40}

\* the access tokens the gateway issues, in order
TokenNames == <<"t1", "t2", "t3", "t4", "t5", "t6", "t7", "t8", "t9", "t10",
                "t11", "t12", "t13", "t14", "t15", "t16">>

\* how long the clock advances in one step
TickSteps == {SafetyMarginMs}

----------------------------------------------------------------------------
\* Pure helpers

Max(a, b) == IF a >= b THEN a ELSE b
Min(S) == CHOOSE x \in S : \A y \in S : x <= y

\* String.prototype.trim
RECURSIVE TrimLeft(_)
TrimLeft(s) == IF s # <<>> /\ Head(s) = " " THEN TrimLeft(Tail(s)) ELSE s

RECURSIVE TrimRight(_)
TrimRight(s) ==
    IF s # <<>> /\ s[Len(s)] = " " THEN TrimRight(SubSeq(s, 1, Len(s) - 1)) ELSE s

Trim(s) == TrimRight(TrimLeft(s))

\* response.ok
Ok(status) == status >= 200 /\ status <= 299

\* the text of the body is kept when it is not JSON
ParseOrNullRaw(body) == body

\* response.json().catch(() => null): the parsed body, "null" when not JSON
ParseOrNull(body) == IF body = BadBody THEN "null" ELSE body

\* responseData?.error?.message
HasErrorMessage(responseData) == responseData = "e1"

\* response.payment_token.token does not throw
HasPaymentToken(responseData) == responseData = "p1"

----------------------------------------------------------------------------
\* The credentials of the token request.  A string is the sequence of its
\* UTF-16 code units, a buffer the sequence of its bytes.

\* the characters credentials are made of: a : e-acute euro-sign and a
\* character outside the basic plane (a surrogate pair)
CredChars == {<<97>>, <<58>>, <<233>>, <<8364>>, <<55357, 56832>>}

\* the strings of at most n characters
RECURSIVE CredStrings(_)
CredStrings(n) ==
    IF n = 0 THEN {<<>>}
    ELSE CredStrings(n - 1) \cup {str \o c : str \in CredStrings(n - 1), c \in CredChars}

Credentials(n) == [clientId : CredStrings(n), clientSecret : CredStrings(n)]

SomeCredentials == [clientId |-> <<97>>, clientSecret |-> <<233>>]

IsHighSurrogate(u) == u >= 55296 /\ u <= 56319
IsLowSurrogate(u) == u >= 56320 /\ u <= 57343

\* every code unit is written as the one byte of its low eight bits
RECURSIVE Utf8Latin1(_)
Utf8Latin1(str) ==
    IF str = <<>> THEN <<>> ELSE <<Head(str) % 256>> \o Utf8Latin1(Tail(str))

\* Buffer.from(str): the UTF-8 bytes of a string
RECURSIVE Utf8(_)
Utf8(str) ==
    IF str = <<>> THEN <<>>
    ELSE LET u == Head(str)
         IN  IF u < 128 THEN <<u>> \o Utf8(Tail(str))
             ELSE IF u < 2048
             THEN <<192 + (u \div 64), 128 + (u % 64)>> \o Utf8(Tail(str))
             ELSE IF IsHighSurrogate(u) /\ Len(str) >= 2 /\ IsLowSurrogate(str[2])
             THEN LET cp == 65536 + (u - 55296) * 1024 + (str[2] - 56320)
                  IN  <<240 + (cp \div 262144), 128 + ((cp \div 4096) % 64),
                        128 + ((cp \div 64) % 64), 128 + (cp % 64)>>
                      \o Utf8(Tail(Tail(str)))
             ELSE IF IsHighSurrogate(u) \/ IsLowSurrogate(u)
             THEN <<239, 191, 189>> \o Utf8(Tail(str))
             ELSE <<224 + (u \div 4096), 128 + ((u \div 64) % 64), 128 + (u % 64)>>
                  \o Utf8(Tail(str))

Base64Alphabet ==
    <<"A", "B", "C", "D", "E", "F", "G", "H", "I", "J", "K", "L", "M", "N", "O", "P",
      "Q", "R", "S", "T", "U", "V", "W", "X", "Y", "Z", "a", "b", "c", "d", "e", "f",
      "g", "h", "i", "j", "k", "l", "m", "n", "o", "p", "q", "r", "s", "t", "u", "v",
      "w", "x", "y", "z", "0", "1", "2", "3", "4", "5", "6", "7", "8", "9", "+", "/">>

\* buffer.toString("base64"): three bytes make four characters, padded with =
RECURSIVE Base64(_)
Base64(bytes) ==
    IF bytes = <<>> THEN <<>>
    ELSE LET n == Len(bytes)
             b1 == bytes[1]
             b2 == IF n >= 2 THEN bytes[2] ELSE 0
             b3 == IF n >= 3 THEN bytes[3] ELSE 0
         IN  <<Base64Alphabet[(b1 \div 4) + 1],
               Base64Alphabet[((b1 % 4) * 16) + (b2 \div 16) + 1],
               IF n >= 2 THEN Base64Alphabet[((b2 % 16) * 4) + (b3 \div 64) + 1] ELSE "=",
               IF n >= 3 THEN Base64Alphabet[(b3 % 64) + 1] ELSE "=">>
             \o (IF n > 3 THEN Base64(SubSeq(bytes, 4, n)) ELSE <<>>)

\* Buffer.from(`${clientId}:${clientSecret}`).toString("base64")
BasicCredentials(clientId, clientSecret) ==
    Base64(Utf8(clientId \o <<58>> \o clientSecret))

----------------------------------------------------------------------------
\* Values thrown and returned

\* an optional field that is absent
None == <<>>

Settled(st, name, hasStatus, status, msg, response, id, value, paymentToken) ==
    [st |-> st, name |-> name, hasStatus |-> hasStatus, status |-> status,
     msg |-> msg, response |-> response, id |-> id, value |-> value,
     paymentToken |-> paymentToken]

Pending == Settled("pending", "", FALSE, 0, "", "undefined", None, "undefined", None)

\* new MonCashError(message, statusCode, response), statusCode given
MonCashError(msg, status, response) ==
    Settled("err", "MonCashError", TRUE, status, msg, response, None, "undefined", None)

\* new MonCashError(message) and new MonCashError(message, undefined, cause)
MonCashErrorNoStatus(msg, response) ==
    Settled("err", "MonCashError", FALSE, 0, msg, response, None, "undefined", None)

RequestTimeoutError ==
    Settled("err", "RequestTimeoutError", TRUE, RequestTimeout, "Request timed out",
            "undefined", None, "undefined", None)

\* the identifier is normalised before it is reported
OrderNotFoundErrorTrimmed(orderId) ==
    Settled("err", "OrderNotFoundError", TRUE, NotFound, "Order with ID _ not found",
            "undefined", <<Trim(orderId)>>, "undefined", None)

OrderNotFoundError(orderId) ==
    Settled("err", "OrderNotFoundError", TRUE, NotFound, "Order with ID _ not found",
            "undefined", <<orderId>>, "undefined", None)

PaymentNotFoundError(transactionId) ==
    Settled("err", "PaymentNotFoundError", TRUE, NotFound,
            "Payment with ID _ not found", "undefined", <<transactionId>>, "undefined",
            None)

\* what fetch rejects with: the abort of the timeout, a network failure;
\* what response.json() and a property read of undefined throw
AbortError == Settled("err", "AbortError", FALSE, 0, "This operation was aborted",
                      "undefined", None, "undefined", None)
FetchFailed == Settled("err", "TypeError", FALSE, 0, "fetch failed",
                       "undefined", None, "undefined", None)
SyntaxError == Settled("err", "SyntaxError", FALSE, 0, "Unexpected token",
                       "undefined", None, "undefined", None)
PropertyTypeError == Settled("err", "TypeError", FALSE, 0,
                             "Cannot read properties of undefined",
                             "undefined", None, "undefined", None)

\* error instanceof MonCashError (the three subclasses extend it)
IsMonCashError(e) ==
    e.name \in {"MonCashError", "OrderNotFoundError", "PaymentNotFoundError",
                "RequestTimeoutError"}

\* the request bodies of the four operations
Body(amount, orderId, transactionId, receiver) ==
    [amount |-> amount, orderId |-> orderId, transactionId |-> transactionId,
     receiver |-> receiver]

NoBody == Body(None, None, None, None)

\* the operation a caller called and what it passed
Args(op, amount, id) == [op |-> op, amount |-> amount, id |-> id]

NoArgs == Args("", None, <<>>)

\* one entry of an operation's history
Ev(e, s, t) == [e |-> e, s |-> s, t |-> t]

----------------------------------------------------------------------------
\* The token slot

NullToken == <<>>

\* the safety margin is forgotten
IsTokenValidNoMargin(td, t) ==
    /\ td # NullToken
    /\ t < td[1].expiresAt

\* the margin of the line the code has commented out
IsTokenValidMinuteMargin(td, t) ==
    /\ td # NullToken
    /\ t < td[1].expiresAt - 60000

\* the instant expiresAt - margin still counts as valid
IsTokenValidInclusive(td, t) ==
    /\ td # NullToken
    /\ t <= td[1].expiresAt - SafetyMarginMs

IsTokenValid(td, t) ==
    /\ td # NullToken
    /\ t < td[1].expiresAt - SafetyMarginMs

\* the slot is left as it is
InvalidatedNot(td) == td

\* this.tokenData = null
Invalidated(td) == NullToken

\* the lifetime is taken as the gateway gives it
NewTokenDataNoFloor(t, access_token, expires_in) ==
    <<[accessToken |-> access_token, expiresAt |-> t + expires_in * MsPerSec]>>

\* the lifetime is added in seconds to a clock in milliseconds
NewTokenDataSeconds(t, access_token, expires_in) ==
    <<[accessToken |-> access_token, expiresAt |-> t + Max(expires_in, MinTtlSec)]>>

\* this.tokenData = { accessToken, expiresAt: Date.now() + expiresIn }
NewTokenData(t, access_token, expires_in) ==
    <<[accessToken |-> access_token,
       expiresAt |-> t + Max(expires_in, MinTtlSec) * MsPerSec]>>

\* one retry too many
RetryAllowedOffByOne(rc, limit) == rc <= limit

\* retryCount < this.maxRetries
RetryAllowed(rc, limit) == rc < limit

\* a server error is retried as well
IsRetriedStatusWide(status) == status \in {Unauthorized, 500}

\* the status whose answer is retried
IsRetriedStatus(status) == status = Unauthorized

----------------------------------------------------------------------------
\* The state after construction: no operation called yet

\* the constructor, config.maxRetries drawn from cfgs and the credentials
\* from creds
ConstructedWith(cfgs, creds) ==
    /\ now = 0
    /\ \E cfg \in cfgs :
           maxRetries = IF cfg = <<>> THEN DefaultMaxRetries ELSE cfg[1]
    /\ config \in creds
    /\ basic = <<>>
    /\ tokenData = NullToken
    /\ issued = 0
    /\ acquired = <<>>
    /\ calls = 0
    /\ pc = [o \in Ops |-> "idle"]
    /\ endpoint = [o \in Ops |-> ""]
    /\ data = [o \in Ops |-> NoBody]
    /\ retryCount = [o \in Ops |-> 0]
    /\ accessToken = [o \in Ops |-> "undefined"]
    /\ out = [o \in Ops |-> Pending]
    /\ args = [o \in Ops |-> NoArgs]
    /\ entry = [o \in Ops |-> NullToken]
    /\ log = [o \in Ops |-> <<>>]

\* the constructor, called with one pair of credentials
Constructed(cfgs) == ConstructedWith(cfgs, {SomeCredentials})

----------------------------------------------------------------------------
\* makeRequest and getAccessToken up to their first await

\* the validity check reads the slot as it was before it was set to td
MakeRequestStaleCheck(o, ep, d, rc, td, lg) ==
    /\ endpoint' = [endpoint EXCEPT ![o] = ep]
    /\ data' = [data EXCEPT ![o] = d]
    /\ retryCount' = [retryCount EXCEPT ![o] = rc]
    /\ tokenData' = td
    /\ entry' = [entry EXCEPT ![o] = td]
    /\ IF IsTokenValid(tokenData, now)
       THEN /\ pc' = [pc EXCEPT ![o] = "gotToken"]
            /\ accessToken' = [accessToken EXCEPT ![o] = tokenData[1].accessToken]
            /\ log' = [log EXCEPT ![o] =
                   Append(lg, Ev("cached", 0, tokenData[1].accessToken))]
            /\ basic' = basic
       ELSE /\ pc' = [pc EXCEPT ![o] = "waitToken"]
            /\ accessToken' = [accessToken EXCEPT ![o] = "undefined"]
            /\ log' = [log EXCEPT ![o] = Append(lg, Ev("tokCall", 0, ""))]
            /\ basic' = BasicCredentials(config.clientId, config.clientSecret)
    /\ out' = [out EXCEPT ![o] = Pending]
    /\ UNCHANGED <<now, maxRetries, issued, acquired, config>>

\* makeRequest(ep, "POST", d, rc) entered with the slot holding td: it runs
\* getAccessToken, which returns the cached token when isTokenValid() and
\* issues the token-endpoint call otherwise.  lg is the history so far.
MakeRequest(o, ep, d, rc, td, lg) ==
    /\ endpoint' = [endpoint EXCEPT ![o] = ep]
    /\ data' = [data EXCEPT ![o] = d]
    /\ retryCount' = [retryCount EXCEPT ![o] = rc]
    /\ tokenData' = td
    /\ entry' = [entry EXCEPT ![o] = td]
    /\ IF IsTokenValid(td, now)
       THEN /\ pc' = [pc EXCEPT ![o] = "gotToken"]
            /\ accessToken' = [accessToken EXCEPT ![o] = td[1].accessToken]
            /\ log' = [log EXCEPT ![o] = Append(lg, Ev("cached", 0, td[1].accessToken))]
            /\ basic' = basic
       ELSE /\ pc' = [pc EXCEPT ![o] = "waitToken"]
            /\ accessToken' = [accessToken EXCEPT ![o] = "undefined"]
            /\ log' = [log EXCEPT ![o] = Append(lg, Ev("tokCall", 0, ""))]
            /\ basic' = BasicCredentials(config.clientId, config.clientSecret)
    /\ out' = [out EXCEPT ![o] = Pending]
    /\ UNCHANGED <<now, maxRetries, issued, acquired, config>>

\* every failure empties the slot
RejectInvalidating(o, e, lg) ==
    /\ pc' = [pc EXCEPT ![o] = "failed"]
    /\ out' = [out EXCEPT ![o] = e]
    /\ log' = [log EXCEPT ![o] = lg]
    /\ tokenData' = NullToken
    /\ UNCHANGED <<now, maxRetries, issued, acquired, config, basic, endpoint, data, retryCount, accessToken,
                   entry>>

\* the promise of the operation rejects with e
Reject(o, e, lg) ==
    /\ pc' = [pc EXCEPT ![o] = "failed"]
    /\ out' = [out EXCEPT ![o] = e]
    /\ log' = [log EXCEPT ![o] = lg]
    /\ UNCHANGED <<now, maxRetries, tokenData, issued, acquired, config, basic, endpoint, data, retryCount,
                   accessToken, entry>>

\* the timeout empties the slot
ThrowTimeoutInvalidating(o, lg) ==
    /\ pc' = [pc EXCEPT ![o] = "failed"]
    /\ out' = [out EXCEPT ![o] = RequestTimeoutError]
    /\ log' = [log EXCEPT ![o] = lg]
    /\ tokenData' = NullToken
    /\ UNCHANGED <<now, maxRetries, issued, acquired, config, basic, endpoint, data, retryCount, accessToken,
                   entry>>

\* throw new RequestTimeoutError()
ThrowTimeout(o, lg) == Reject(o, RequestTimeoutError, lg)

\* an unknown error is wrapped without its cause
CatchDroppingCause(o, e, lg) ==
    IF IsMonCashError(e)
    THEN IF e.hasStatus /\ IsRetriedStatus(e.status)
            /\ RetryAllowed(retryCount[o], maxRetries)
         THEN MakeRequest(o, endpoint[o], data[o], retryCount[o] + 1,
                          Invalidated(tokenData),
                          Append(lg, Ev("clear", 0, "")))
         ELSE Reject(o, e, lg)
    ELSE IF e.name = "AbortError"
         THEN ThrowTimeout(o, lg)
         ELSE Reject(o, MonCashErrorNoStatus(e.msg, "undefined"), lg)

\* the catch block of makeRequest, entered with e
Catch(o, e, lg) ==
    IF IsMonCashError(e)
    THEN IF e.hasStatus /\ IsRetriedStatus(e.status)
            /\ RetryAllowed(retryCount[o], maxRetries)
         THEN MakeRequest(o, endpoint[o], data[o], retryCount[o] + 1,
                          Invalidated(tokenData),
                          Append(lg, Ev("clear", 0, "")))
         ELSE Reject(o, e, lg)
    ELSE IF e.name = "AbortError"
         THEN ThrowTimeout(o, lg)
         ELSE Reject(o, MonCashErrorNoStatus(e.msg, e.name), lg)

----------------------------------------------------------------------------
\* The operation methods

\* a zero amount is let through
BadAmountStrict(amount) == amount < 0

\* amount <= 0
BadAmount(amount) == amount <= 0

\* !id.trim()
Blank(id) == Trim(id) = <<>>

\* a caller may call an operation when its previous one has settled
CanCall(o) ==
    /\ pc[o] \in {"idle", "done", "failed"}
    /\ calls < MaxCalls

\* the operation throws before it calls makeRequest
RejectInput(o, msg) ==
    /\ pc' = [pc EXCEPT ![o] = "failed"]
    /\ out' = [out EXCEPT ![o] = MonCashErrorNoStatus(msg, "undefined")]
    /\ log' = [log EXCEPT ![o] = <<>>]
    /\ endpoint' = [endpoint EXCEPT ![o] = ""]
    /\ data' = [data EXCEPT ![o] = NoBody]
    /\ retryCount' = [retryCount EXCEPT ![o] = 0]
    /\ accessToken' = [accessToken EXCEPT ![o] = "undefined"]
    /\ entry' = [entry EXCEPT ![o] = NullToken]
    /\ UNCHANGED <<now, maxRetries, tokenData, issued, acquired, config, basic>>

CreatePayment(o, amount, orderId) ==
    /\ CanCall(o)
    /\ calls' = calls + 1
    /\ args' = [args EXCEPT ![o] = Args("createPayment", <<amount>>, orderId)]
    /\ IF BadAmount(amount)
       THEN RejectInput(o, "Amount must be greater than 0")
       ELSE IF Blank(orderId)
       THEN RejectInput(o, "OrderId is required")
       ELSE MakeRequest(o, CREATE_PAYMENT, Body(<<amount>>, <<orderId>>, None, None), 0,
                        tokenData, <<>>)

GetTransaction(o, transactionId) ==
    /\ CanCall(o)
    /\ calls' = calls + 1
    /\ args' = [args EXCEPT ![o] = Args("getTransaction", None, transactionId)]
    /\ IF Blank(transactionId)
       THEN RejectInput(o, "TransactionId is required")
       ELSE MakeRequest(o, RETRIEVE_TRANSACTION, Body(None, None, <<transactionId>>, None),
                        0, tokenData, <<>>)

GetOrder(o, orderId) ==
    /\ CanCall(o)
    /\ calls' = calls + 1
    /\ args' = [args EXCEPT ![o] = Args("getOrder", None, orderId)]
    /\ IF Blank(orderId)
       THEN RejectInput(o, "OrderId is required")
       ELSE MakeRequest(o, RETRIEVE_ORDER, Body(None, <<orderId>>, None, None), 0,
                        tokenData, <<>>)

\* description is passed through to the body untouched and is left out
TransFer(o, amount, receiver) ==
    /\ CanCall(o)
    /\ calls' = calls + 1
    /\ args' = [args EXCEPT ![o] = Args("transFer", <<amount>>, receiver)]
    /\ IF BadAmount(amount)
       THEN RejectInput(o, "Amount must be greater than 0")
       ELSE IF Blank(receiver)
       THEN RejectInput(o, "Receiver is required")
       ELSE MakeRequest(o, TRANSFER, Body(<<amount>>, None, None, <<receiver>>), 0,
                        tokenData, <<>>)

----------------------------------------------------------------------------
\* getAccessToken after its fetch settles

\* getAccessToken calls the token endpoint again when its fetch rejects
TokenNetworkFailureRetrying(o) ==
    /\ pc[o] = "waitToken"
    /\ log' = [log EXCEPT ![o] = @ \o <<Ev("tokNetFail", 0, ""), Ev("tokCall", 0, "")>>]
    /\ UNCHANGED <<now, maxRetries, tokenData, issued, acquired, config, basic, calls,
                   pc, endpoint, data, retryCount, accessToken, out, args, entry>>

\* fetch of the token endpoint rejects: wrapped by getAccessToken's catch,
\* then handled by makeRequest's catch
TokenNetworkFailure(o) ==
    /\ pc[o] = "waitToken"
    /\ Catch(o, MonCashErrorNoStatus("Failed to get access token", FetchFailed.name),
             Append(log[o], Ev("tokNetFail", 0, "")))
    /\ UNCHANGED <<calls, args>>

\* getAccessToken's catch wraps the error of a status that is not ok as well
TokenHttpErrorUnclassified(o, status, body) ==
    /\ pc[o] = "waitToken"
    /\ ~Ok(status)
    /\ Catch(o, MonCashErrorNoStatus("Failed to get access token", "MonCashError"),
             Append(log[o], Ev("tokResp", status, body)))
    /\ UNCHANGED <<calls, args>>

\* the token endpoint answers with a status that is not ok
TokenHttpError(o, status, body) ==
    /\ pc[o] = "waitToken"
    /\ ~Ok(status)
    /\ Catch(o, MonCashError("Authentication failed", status, ParseOrNull(body)),
             Append(log[o], Ev("tokResp", status, body)))
    /\ UNCHANGED <<calls, args>>

\* a token response that cannot be parsed empties the slot
TokenBadJsonInvalidating(o, status) ==
    /\ pc[o] = "waitToken"
    /\ Ok(status)
    /\ RejectInvalidating(o, MonCashErrorNoStatus("Failed to get access token",
                                                  SyntaxError.name),
                          Append(log[o], Ev("tokBadJson", status, "")))
    /\ UNCHANGED <<calls, args>>

\* the token endpoint answers ok with a body that is not JSON
TokenBadJson(o, status) ==
    /\ pc[o] = "waitToken"
    /\ Ok(status)
    /\ Catch(o, MonCashErrorNoStatus("Failed to get access token", SyntaxError.name),
             Append(log[o], Ev("tokBadJson", status, "")))
    /\ UNCHANGED <<calls, args>>

\* the token endpoint answers ok with { access_token, expires_in }
TokenStored(o, status, access_token, expires_in) ==
    /\ pc[o] = "waitToken"
    /\ Ok(status)
    /\ tokenData' = NewTokenData(now, access_token, expires_in)
    /\ acquired' = <<[at |-> now, expires_in |-> expires_in]>>
    /\ accessToken' = [accessToken EXCEPT ![o] = tokenData'[1].accessToken]
    /\ pc' = [pc EXCEPT ![o] = "gotToken"]
    /\ log' = [log EXCEPT ![o] = Append(@, Ev("tokResp", status, access_token))]
    /\ UNCHANGED <<now, maxRetries, config, basic, calls, endpoint, data, retryCount,
                   out, args, entry>>

\* a token response whose access_token is a token the gateway issues now
TokenIssued(o, status, expires_in) ==
    /\ issued < Len(TokenNames)
    /\ issued' = issued + 1
    /\ TokenStored(o, status, TokenNames[issued + 1], expires_in)

\* a token response whose access_token is missing or empty
TokenUnusable(o, status, access_token, expires_in) ==
    /\ access_token \in {"undefined", ""}
    /\ issued' = issued
    /\ TokenStored(o, status, access_token, expires_in)

----------------------------------------------------------------------------
\* makeRequest after getAccessToken resolves

\* the bearer token is read from the slot when the call is issued
SendDataFromSlot(o) ==
    /\ pc[o] = "gotToken"
    /\ pc' = [pc EXCEPT ![o] = "waitData"]
    /\ log' = [log EXCEPT ![o] = Append(@, Ev("dataCall", 0,
                  IF tokenData # NullToken THEN tokenData[1].accessToken
                  ELSE "undefined"))]
    /\ UNCHANGED <<now, maxRetries, tokenData, issued, acquired, config, basic, calls, endpoint, data,
                   retryCount, accessToken, out, args, entry>>

\* the data-endpoint fetch is issued with Authorization: Bearer accessToken
SendData(o) ==
    /\ pc[o] = "gotToken"
    /\ pc' = [pc EXCEPT ![o] = "waitData"]
    /\ log' = [log EXCEPT ![o] = Append(@, Ev("dataCall", 0, accessToken[o]))]
    /\ UNCHANGED <<now, maxRetries, tokenData, issued, acquired, config, basic, calls, endpoint, data,
                   retryCount, accessToken, out, args, entry>>

\* the timer fires and aborts the fetch
DataTimeout(o) ==
    /\ pc[o] = "waitData"
    /\ Catch(o, AbortError, Append(log[o], Ev("dataTimeout", 0, "")))
    /\ UNCHANGED <<calls, args>>

\* the fetch rejects before any response
DataNetworkFailure(o) ==
    /\ pc[o] = "waitData"
    /\ Catch(o, FetchFailed, Append(log[o], Ev("dataNetFail", 0, "")))
    /\ UNCHANGED <<calls, args>>

\* payment_token is read with optional chaining
ResolveUnchecked(o, responseData, lg) ==
    /\ pc' = [pc EXCEPT ![o] = "done"]
    /\ out' = [out EXCEPT ![o] =
           Settled("ok", "", FALSE, 0, "", "undefined", None, responseData,
                   IF endpoint[o] = CREATE_PAYMENT THEN <<responseData>> ELSE None)]
    /\ log' = [log EXCEPT ![o] = lg]
    /\ UNCHANGED <<now, maxRetries, tokenData, issued, acquired, config, basic, endpoint, data,
                   retryCount, accessToken, entry>>

\* what the operation method does with the value makeRequest returned
Resolve(o, responseData, lg) ==
    IF endpoint[o] = CREATE_PAYMENT /\ ~HasPaymentToken(responseData)
    THEN Reject(o, PropertyTypeError, lg)
    ELSE /\ pc' = [pc EXCEPT ![o] = "done"]
         /\ out' = [out EXCEPT ![o] =
                Settled("ok", "", FALSE, 0, "", "undefined", None, responseData,
                        IF endpoint[o] = CREATE_PAYMENT THEN <<responseData>> ELSE None)]
         /\ log' = [log EXCEPT ![o] = lg]
         /\ UNCHANGED <<now, maxRetries, tokenData, issued, acquired, config, basic, endpoint, data, retryCount,
                        accessToken, entry>>

\* responseData?.error?.message || `Request failed with status ${status}`
ErrorMessage(responseData) ==
    IF HasErrorMessage(responseData) THEN "gateway message"
    ELSE "Request failed with status _"

\* the slot is emptied only when it still holds the token that was sent
DataResponseGuarded(o, status, body) ==
    /\ pc[o] = "waitData"
    /\ UNCHANGED <<calls, args>>
    /\ LET responseData == ParseOrNull(body)
           lg == Append(log[o], Ev("dataResp", status, body))
       IN  IF Ok(status)
           THEN Resolve(o, responseData, Append(lg, Ev("return", 0, responseData)))
           ELSE IF status = NotFound /\ endpoint[o] = RETRIEVE_ORDER
           THEN Catch(o, OrderNotFoundError(data[o].orderId[1]), lg)
           ELSE IF status = NotFound /\ endpoint[o] = RETRIEVE_TRANSACTION
           THEN Catch(o, PaymentNotFoundError(data[o].transactionId[1]), lg)
           ELSE IF IsRetriedStatus(status) /\ RetryAllowed(retryCount[o], maxRetries)
           THEN MakeRequest(o, endpoint[o], data[o], retryCount[o] + 1,
                            IF tokenData # NullToken
                               /\ tokenData[1].accessToken = accessToken[o]
                            THEN Invalidated(tokenData) ELSE tokenData,
                            Append(lg, Ev("clear", 0, "")))
           ELSE Catch(o, MonCashError(ErrorMessage(responseData), status, responseData),
                      lg)

\* the data endpoint answers with a status and a body
DataResponse(o, status, body) ==
    /\ pc[o] = "waitData"
    /\ UNCHANGED <<calls, args>>
    /\ LET responseData == ParseOrNull(body)
           lg == Append(log[o], Ev("dataResp", status, body))
       IN  IF Ok(status)
           THEN Resolve(o, responseData, Append(lg, Ev("return", 0, responseData)))
           ELSE IF status = NotFound /\ endpoint[o] = RETRIEVE_ORDER
           THEN Catch(o, OrderNotFoundError(data[o].orderId[1]), lg)
           ELSE IF status = NotFound /\ endpoint[o] = RETRIEVE_TRANSACTION
           THEN Catch(o, PaymentNotFoundError(data[o].transactionId[1]), lg)
           ELSE IF IsRetriedStatus(status) /\ RetryAllowed(retryCount[o], maxRetries)
           THEN MakeRequest(o, endpoint[o], data[o], retryCount[o] + 1,
                          Invalidated(tokenData),
                            Append(lg, Ev("clear", 0, "")))
           ELSE Catch(o, MonCashError(ErrorMessage(responseData), status, responseData),
                      lg)

----------------------------------------------------------------------------
\* Time passes

MaxNow == MaxTicks * SafetyMarginMs

Tick(d) ==
    /\ now + d <= MaxNow
    /\ now' = now + d
    /\ UNCHANGED <<maxRetries, tokenData, issued, acquired, config, basic, calls, pc, endpoint, data,
                   retryCount, accessToken, out, args, entry, log>>

----------------------------------------------------------------------------
\* One caller, the whole environment

SeqOps == {Min(Ops)}
SeqCfgRetries == {<<n>> : n \in 0..MaxSeqRetries}

Init == Constructed(SeqCfgRetries)

Next ==
    \/ \E o \in SeqOps, amount \in Amounts, id \in Ids : CreatePayment(o, amount, id)
    \/ \E o \in SeqOps, id \in Ids : GetTransaction(o, id)
    \/ \E o \in SeqOps, id \in Ids : GetOrder(o, id)
    \/ \E o \in SeqOps, amount \in Amounts, id \in Ids : TransFer(o, amount, id)
    \/ \E o \in SeqOps : TokenNetworkFailure(o)
    \/ \E o \in SeqOps, status \in Statuses, body \in Bodies :
           TokenHttpError(o, status, body)
    \/ \E o \in SeqOps, status \in Statuses : TokenBadJson(o, status)
    \/ \E o \in SeqOps, status \in Statuses, e \in ExpiresIns : TokenIssued(o, status, e)
    \/ \E o \in SeqOps, status \in Statuses, t \in {"undefined", ""}, e \in ExpiresIns :
           TokenUnusable(o, status, t, e)
    \/ \E o \in SeqOps : SendData(o)
    \/ \E o \in SeqOps : DataTimeout(o)
    \/ \E o \in SeqOps : DataNetworkFailure(o)
    \/ \E o \in SeqOps, status \in Statuses, body \in Bodies :
           DataResponse(o, status, body)
    \/ \E d \in TickSteps : Tick(d)

Spec == Init /\ [][Next]_vars

----------------------------------------------------------------------------
\* All callers, operations on RetrieveOrderPayment, every retry ceiling

ConcIds == {<<>>, <<"X">>}
ConcBodies == {"e1"}
ConcExpiresIns == {40}

InitConc == Constructed(CfgRetries)

NextConc ==
    \/ \E o \in Ops, id \in ConcIds : GetOrder(o, id)
    \/ \E o \in Ops : TokenNetworkFailure(o)
    \/ \E o \in Ops, status \in Statuses, body \in ConcBodies :
           TokenHttpError(o, status, body)
    \/ \E o \in Ops, status \in Statuses : TokenBadJson(o, status)
    \/ \E o \in Ops, status \in Statuses, e \in ConcExpiresIns : TokenIssued(o, status, e)
    \/ \E o \in Ops : SendData(o)
    \/ \E o \in Ops : DataTimeout(o)
    \/ \E o \in Ops : DataNetworkFailure(o)
    \/ \E o \in Ops, status \in Statuses, body \in ConcBodies :
           DataResponse(o, status, body)

SpecConc == InitConc /\ [][NextConc]_vars

----------------------------------------------------------------------------
\* One caller, the lifetime of a cached token: the clock moves between the
\* instants around the expiry of a token

\* expires_in values (seconds) of a token response
CacheExpiresIns == {-1, 0, 5, 29, 30, 31, 59, 3600}

\* the instants (milliseconds) the clock shows: a few origins, and from each
\* the distances at which a lifetime, with or without floor and margin, ends
CacheOrigins == {0, 7000}
CacheDistances == {0, 19999, 20000, 20999, 21000, 48999, 49000, 3589999, 3590000}
CacheInstants == {s + d : s \in CacheOrigins, d \in CacheDistances}

CacheStatuses == {200, 401}

\* Date.now() has moved on to t
Elapse(t) ==
    /\ t > now
    /\ now' = t
    /\ UNCHANGED <<maxRetries, tokenData, issued, acquired, config, basic, calls, pc, endpoint, data,
                   retryCount, accessToken, out, args, entry, log>>

InitCache == Constructed(SeqCfgRetries)

NextCache ==
    \/ \E o \in SeqOps : GetOrder(o, <<"X">>)
    \/ \E o \in SeqOps, e \in CacheExpiresIns : TokenIssued(o, 200, e)
    \/ \E o \in SeqOps : SendData(o)
    \/ \E o \in SeqOps, status \in CacheStatuses : DataResponse(o, status, "e1")
    \/ \E t \in CacheInstants : Elapse(t)

SpecCache == InitCache /\ [][NextCache]_vars

----------------------------------------------------------------------------
\* One caller, every pair of credentials

InitCred == ConstructedWith(SeqCfgRetries, Credentials(MaxCredLen))

NextCred ==
    \/ \E o \in SeqOps : GetOrder(o, <<"X">>)
    \/ \E o \in SeqOps : TokenHttpError(o, 401, "e1")
    \/ \E o \in SeqOps, e \in ConcExpiresIns : TokenIssued(o, 200, e)
    \/ \E o \in SeqOps : SendData(o)
    \/ \E o \in SeqOps, status \in CacheStatuses : DataResponse(o, status, "e1")

SpecCred == InitCred /\ [][NextCred]_vars

----------------------------------------------------------------------------
\* What the runtime guarantees: a continuation that is ready runs, and the
\* timer makeRequest sets before its fetch fires unless the fetch settles
\* first.  Nothing makes the gateway answer, and getAccessToken sets no timer.

LiveStatuses == {200, 401, 500}

InitLive == Constructed(SeqCfgRetries)

NextLive ==
    \/ \E o \in Ops, id \in ConcIds : GetOrder(o, id)
    \/ \E o \in Ops : TokenNetworkFailure(o)
    \/ \E o \in Ops, status \in LiveStatuses, body \in ConcBodies :
           TokenHttpError(o, status, body)
    \/ \E o \in Ops, status \in LiveStatuses, e \in ConcExpiresIns :
           TokenIssued(o, status, e)
    \/ \E o \in Ops : SendData(o)
    \/ \E o \in Ops : DataTimeout(o)
    \/ \E o \in Ops : DataNetworkFailure(o)
    \/ \E o \in Ops, status \in LiveStatuses, body \in ConcBodies :
           DataResponse(o, status, body)

Scheduling == \A o \in Ops : WF_vars(SendData(o)) /\ WF_vars(DataTimeout(o))

SpecLive == InitLive /\ [][NextLive]_vars /\ Scheduling

----------------------------------------------------------------------------
\* Reading an operation's history

\* the entries of lg with tag e, in order
Events(lg, e) == SelectSeq(lg, LAMBDA x : x.e = e)

\* the positions of lg that hold an entry with tag e
Positions(lg, e) == {i \in 1..Len(lg) : lg[i].e = e}

DataCalls(o) == Len(Events(log[o], "dataCall"))
TokenCalls(o) == Len(Events(log[o], "tokCall"))
DataResponses(o) == Events(log[o], "dataResp")

Settles(o) == pc[o] \in {"done", "failed"}

\* the step appends entry ev (and possibly more) to the history of o
Handles(o, ev) ==
    /\ Len(log'[o]) > Len(log[o])
    /\ SubSeq(log'[o], 1, Len(log[o])) = log[o]
    /\ log'[o][Len(log[o]) + 1] = ev

\* the slot holds access token t
Holds(td, t) == td # <<>> /\ td[1].accessToken = t

----------------------------------------------------------------------------
\* C1: an operation whose first data-endpoint call is answered 401 and
\* whose second is answered 200 makes exactly two data-endpoint calls, the
\* token slot is cleared when the 401 is handled, before the second call is
\* issued, and makeRequest returns the parsed body of the 200 response.

C1_Case(o) ==
    /\ Len(DataResponses(o)) >= 2
    /\ DataResponses(o)[1].s = 401
    /\ DataResponses(o)[2].s = 200

C1_Outcome ==
    \A o \in Ops : C1_Case(o) =>
        LET lg == log[o]
            calls2 == Positions(lg, "dataCall")
            body == DataResponses(o)[2].t
        IN  /\ Cardinality(calls2) = 2
            /\ Len(DataResponses(o)) = 2
            /\ \E c \in Positions(lg, "clear") : \A d \in calls2 :
                   (d < c) = (d = Min(calls2))
            /\ Settles(o)
            /\ lg[Len(lg)] = Ev("return", 0, IF body = "<html>" THEN "null" ELSE body)
            /\ out[o].st = "ok" => out[o].value = lg[Len(lg)].t

\* handling a 401 of the data endpoint with retries left empties the slot
\* and issues the token-endpoint call of the next attempt
C1_Step ==
    \A o \in Ops, b \in Bodies :
        (Handles(o, Ev("dataResp", 401, b)) /\ retryCount[o] < maxRetries) =>
            /\ tokenData' = <<>>
            /\ retryCount'[o] = retryCount[o] + 1
            /\ log'[o] = log[o] \o <<Ev("dataResp", 401, b), Ev("clear", 0, ""),
                                     Ev("tokCall", 0, "")>>

C1_Retry401Then200 == [](C1_Outcome) /\ [][C1_Step]_vars

C1_Witness ==
    \E o \in Ops : C1_Case(o) /\ out[o].st = "ok" /\ out[o].value = "p1"
                   /\ DataResponses(o)[1].t = "e1"

----------------------------------------------------------------------------
\* C2 as stated: an operation whose data-endpoint calls are all answered
\* 401 makes exactly maxRetries + 1 data-endpoint calls and then fails with
\* status 401.

C2_Tok401(o) == {i \in Positions(log[o], "tokResp") : log[o][i].s = 401}

\* the operation ended on a 401 and every data-endpoint call was answered 401
C2_All401(o) ==
    /\ Settles(o)
    /\ log[o] # <<>>
    /\ log[o][Len(log[o])].e \in {"dataResp", "tokResp"}
    /\ log[o][Len(log[o])].s = 401
    /\ \A i \in Positions(log[o], "dataResp") : log[o][i].s = 401

----------------------------------------------------------------------------
\* C3: an answer other than HTTP 401 that is not a success (404, another
\* non-2xx status, the timeout abort, a network failure) ends the operation:
\* it is the last thing in the operation's history, no HTTP call follows it,
\* and the operation has failed, whatever is left of the retry budget.

C3_Final(ev) ==
    \/ ev.e \in {"dataResp", "tokResp"} /\ ev.s \notin 200..299 /\ ev.s # 401
    \/ ev.e \in {"dataTimeout", "dataNetFail", "tokNetFail"}

C3_Only401Retried ==
    \A o \in Ops : \A i \in 1..Len(log[o]) :
        C3_Final(log[o][i]) =>
            /\ i = Len(log[o])
            /\ pc[o] = "failed"
            /\ out[o].st = "err"

C3_Witness ==
    \E o \in Ops :
        /\ pc[o] = "failed" /\ retryCount[o] < maxRetries
        /\ log[o] # <<>> /\ log[o][Len(log[o])].e = "dataResp"
        /\ log[o][Len(log[o])].s = 500

----------------------------------------------------------------------------
\* C4 as stated: after a dispatch that fails by timeout the token slot is
\* what it was when the dispatch was entered.

C4_Timeout(o) == log[o] # <<>> /\ log[o][Len(log[o])].e = "dataTimeout"

C4_Original ==
    \A o \in Ops : C4_Timeout(o) =>
        /\ out[o].name = "RequestTimeoutError"
        /\ tokenData = entry[o]

\* C4 as amended: a dispatch whose data-endpoint call times out fails with
\* RequestTimeoutError (status 408) and handling the timeout does not change
\* the token slot; the slot is what it was at entry when the dispatch used
\* the cached token, and holds the token the dispatch acquired otherwise.

C4_Outcome ==
    \A o \in Ops : C4_Timeout(o) =>
        /\ pc[o] = "failed"
        /\ out[o].name = "RequestTimeoutError"
        /\ out[o].hasStatus /\ out[o].status = 408
        /\ LET n == Len(log[o])
           IN  /\ n >= 3
               /\ log[o][n - 2].e \in {"cached", "tokResp"}
               /\ log[o][n - 2].e = "cached" => tokenData = entry[o]
               /\ log[o][n - 2].e = "tokResp" => Holds(tokenData, log[o][n - 2].t)

C4_Step ==
    \A o \in Ops : Handles(o, Ev("dataTimeout", 0, "")) => tokenData' = tokenData

C4_TimeoutKeepsSlot == [](C4_Outcome) /\ [][C4_Step]_vars

C4_Witness ==
    \E o \in Ops :
        /\ C4_Timeout(o)
        /\ log[o][Len(log[o]) - 2].e = "tokResp"
        /\ tokenData # <<>> /\ entry[o] = <<>>

----------------------------------------------------------------------------
\* C5: the token slot goes from present to absent only in a step that
\* handles an HTTP 401 response, and a step that handles a timeout, a 404,
\* another non-2xx status or a network failure leaves the slot as it is,
\* also when the operations of several callers interleave.

C5_Handles401(o) ==
    \E b \in Bodies : \/ Handles(o, Ev("tokResp", 401, b))
                      \/ Handles(o, Ev("dataResp", 401, b))

C5_HandlesOther(o) ==
    \/ \E st \in Statuses \ {200, 401}, b \in Bodies :
           \/ Handles(o, Ev("tokResp", st, b))
           \/ Handles(o, Ev("dataResp", st, b))
    \/ \E e \in {"dataTimeout", "dataNetFail", "tokNetFail"} : Handles(o, Ev(e, 0, ""))

C5_Step ==
    /\ (tokenData # <<>> /\ tokenData' = <<>>) => \E o \in Ops : C5_Handles401(o)
    /\ \A o \in Ops : C5_HandlesOther(o) => tokenData' = tokenData

C5_Only401Clears == [][C5_Step]_vars

C5_Witness ==
    \E o, p \in Ops :
        /\ o # p
        /\ tokenData = <<>>
        /\ Positions(log[o], "clear") # {}
        /\ pc[p] = "failed" /\ log[p] # <<>> /\ log[p][Len(log[p])].e = "dataTimeout"
        /\ \E i \in Positions(log[p], "tokResp") : log[p][i].s = 200

----------------------------------------------------------------------------
\* C6: once a 401 of the data endpoint has been handled, the token slot no
\* longer holds the token that call carried, whatever the attempt number.

C6_Step ==
    \A o \in Ops, b \in Bodies :
        Handles(o, Ev("dataResp", 401, b)) => ~Holds(tokenData', accessToken[o])

C6_RejectedTokenDropped == [][C6_Step]_vars

----------------------------------------------------------------------------
\* C7: a 404 of the data endpoint ends getOrder with an OrderNotFoundError
\* and getTransaction with a PaymentNotFoundError that carry exactly the
\* identifier the caller passed, whatever the response body; the 404 is the
\* last thing the operation does.

C7_Is404(ev) == ev.e = "dataResp" /\ ev.s = 404

C7_NotFoundCarriesId ==
    \A o \in Ops : \A i \in 1..Len(log[o]) :
        (C7_Is404(log[o][i]) /\ args[o].op \in {"getOrder", "getTransaction"}) =>
            /\ i = Len(log[o])
            /\ pc[o] = "failed"
            /\ out[o].name = IF args[o].op = "getOrder" THEN "OrderNotFoundError"
                             ELSE "PaymentNotFoundError"
            /\ out[o].hasStatus /\ out[o].status = 404
            /\ out[o].id = <<args[o].id>>

C7_Witness ==
    \E o \in Ops :
        /\ args[o] = Args("getOrder", <<>>, <<" ", "Y">>)
        /\ log[o] # <<>> /\ log[o][Len(log[o])] = Ev("dataResp", 404, "p1")
        /\ out[o].id = << <<" ", "Y">> >>

----------------------------------------------------------------------------
\* C8: an operation called with an amount <= 0 or with a blank identifier
\* fails with a MonCashError that has no status code, issues no HTTP call
\* and leaves the token slot as it is.

C8_Invalid(a) ==
    \/ a.op \in {"createPayment", "transFer"} /\ a.amount[1] <= 0
    \/ \A i \in 1..Len(a.id) : a.id[i] = " "

C8_Outcome ==
    \A o \in Ops : (args[o].op # "" /\ C8_Invalid(args[o])) =>
        /\ pc[o] = "failed"
        /\ out[o].st = "err" /\ out[o].name = "MonCashError" /\ ~out[o].hasStatus
        /\ log[o] = <<>>

\* the step is a call by o
C8_Calls(o) ==
    /\ calls' = calls + 1
    /\ \A p \in Ops \ {o} : pc'[p] = pc[p] /\ args'[p] = args[p] /\ log'[p] = log[p]

C8_Step ==
    \A o \in Ops : (C8_Calls(o) /\ C8_Invalid(args'[o])) => tokenData' = tokenData

C8_InvalidInputFailsFast == [](C8_Outcome) /\ [][C8_Step]_vars

C8_Witness ==
    \E o \in Ops :
        /\ args[o] = Args("createPayment", <<0>>, <<"X">>)
        /\ pc[o] = "failed" /\ ~out[o].hasStatus
        /\ tokenData # <<>>

----------------------------------------------------------------------------
\* C9: a success answer of the token endpoint without a usable access_token
\* fails the acquisition: the operation issues no data-endpoint call with
\* that token and the token slot never holds it.

C9_Unusable(t) == t \in {"undefined", ""}

C9_UnusableTokenRefused ==
    /\ \A t \in {"undefined", ""} : ~Holds(tokenData, t)
    /\ \A o \in Ops : \A i \in 1..Len(log[o]) :
           /\ log[o][i].e = "dataCall" => ~C9_Unusable(log[o][i].t)
           /\ (log[o][i].e = "tokResp" /\ log[o][i].s \in 200..299
                  /\ C9_Unusable(log[o][i].t)) =>
                  /\ i = Len(log[o])
                  /\ pc[o] = "failed"
                  /\ out[o].name = "MonCashError"

----------------------------------------------------------------------------
\* C10 as amended: an attempt starts with a token-endpoint call exactly when
\* the token slot is not valid at that instant (absent, or now >= expiresAt
\* - 10 s): a called operation finds the slot as the previous step left it,
\* a retry finds it just emptied.  An attempt that finds the slot valid
\* issues no token-endpoint call and sends the cached token as the bearer
\* token of its data-endpoint call.

C10_Valid(td, t) == td # <<>> /\ ~(t >= td[1].expiresAt - 10000)

\* the step is a call by o that gets past the validation
C10_Starts(o) ==
    /\ calls' = calls + 1
    /\ pc'[o] \in {"waitToken", "gotToken"}

\* the step is a retry by o
C10_Retries(o) == retryCount'[o] = retryCount[o] + 1 /\ calls' = calls

C10_Step ==
    \A o \in Ops :
        /\ C10_Starts(o) =>
               /\ (pc'[o] = "waitToken") = ~C10_Valid(tokenData, now)
               /\ pc'[o] = "waitToken" => log'[o] = <<Ev("tokCall", 0, "")>>
               /\ pc'[o] = "gotToken" =>
                      /\ log'[o] = <<Ev("cached", 0, tokenData[1].accessToken)>>
                      /\ accessToken'[o] = tokenData[1].accessToken
        /\ C10_Retries(o) =>
               /\ ~C10_Valid(tokenData', now)
               /\ pc'[o] = "waitToken"
               /\ log'[o][Len(log'[o])] = Ev("tokCall", 0, "")

\* the call that follows a cached token carries it, with no token call between
C10_Bearer ==
    \A o \in Ops : \A i \in Positions(log[o], "cached") :
        /\ i = Len(log[o]) => pc[o] = "gotToken" /\ accessToken[o] = log[o][i].t
        /\ i < Len(log[o]) => log[o][i + 1] = Ev("dataCall", 0, log[o][i].t)

C10_TokenCallIffInvalid == [](C10_Bearer) /\ [][C10_Step]_vars

\* C10 as stated: an operation that starts while the cached token is valid
\* issues no token-endpoint call at all.
C10_Original ==
    \A o \in Ops : (log[o] # <<>> /\ log[o][1].e = "cached") => TokenCalls(o) = 0

C10_Witness ==
    \E o \in Ops :
        /\ calls = 2 /\ now > 0
        /\ Positions(log[o], "cached") = {1}
        /\ DataCalls(o) = 1 /\ TokenCalls(o) = 0

----------------------------------------------------------------------------
\* The lifetime of a cached token

\* the slot holds a token that was stored with expires_in = e
CachedWith(e) == tokenData # <<>> /\ acquired # <<>> /\ acquired[1].expires_in = e

\* the instant the cached token was stored
CachedAt == acquired[1].at

\* the step is a call by o that gets past the validation; it found the slot
\* valid (and took the token from it) or not (and called the token endpoint)
StartsCached(o) == C10_Starts(o) /\ pc'[o] = "gotToken"
StartsFresh(o) == C10_Starts(o) /\ pc'[o] = "waitToken"

----------------------------------------------------------------------------
\* C11: a token cached at t0 with expires_in = 3600 is reported valid at t0
\* and at every instant t < t0 + 3600 s - 10 s, and invalid at every instant
\* t >= t0 + 3590 s; an operation called at t takes the token from the slot
\* in the first case and calls the token endpoint in the second.

C11_Reported ==
    CachedWith(3600) =>
        /\ now = CachedAt => IsTokenValid(tokenData, now)
        /\ now < CachedAt + 3600 * 1000 - 10 * 1000 => IsTokenValid(tokenData, now)
        /\ now >= CachedAt + 3590 * 1000 => ~IsTokenValid(tokenData, now)

C11_Step ==
    \A o \in Ops : (CachedWith(3600) /\ C10_Starts(o)) =>
        /\ now < CachedAt + 3600 * 1000 - 10 * 1000 => StartsCached(o)
        /\ now >= CachedAt + 3590 * 1000 => StartsFresh(o)

C11_HourValidUntilMargin == [](C11_Reported) /\ [][C11_Step]_vars

C11_Witness ==
    \E o \in Ops :
        /\ CachedWith(3600) /\ CachedAt > 0
        /\ now = CachedAt + 3589999
        /\ calls = 2 /\ log[o] = <<Ev("cached", 0, tokenData[1].accessToken)>>

----------------------------------------------------------------------------
\* C12 as stated: a token cached with expires_in = 5 is reported invalid
\* immediately after it is set.

C12_Original ==
    (CachedWith(5) /\ now = CachedAt) => ~IsTokenValid(tokenData, now)

\* C12 as amended: a token cached at t0 with expires_in = 5 is kept for the
\* 30-second floor (expiresAt = t0 + 30 s): it is reported valid immediately
\* after it is set and at every instant t < t0 + 20 s, and invalid at every
\* instant t >= t0 + 20 s.

C12_Reported ==
    CachedWith(5) =>
        /\ tokenData[1].expiresAt = CachedAt + 30 * 1000
        /\ now = CachedAt => IsTokenValid(tokenData, now)
        /\ IsTokenValid(tokenData, now) = (now < CachedAt + 20 * 1000)

C12_Step ==
    \A o \in Ops : (CachedWith(5) /\ C10_Starts(o)) =>
        StartsCached(o) = (now < CachedAt + 20 * 1000)

C12_ShortLifetimeFloored == [](C12_Reported) /\ [][C12_Step]_vars

C12_Witness ==
    \E o \in Ops :
        /\ CachedWith(5)
        /\ now = CachedAt + 19999
        /\ calls = 2 /\ log[o] = <<Ev("cached", 0, tokenData[1].accessToken)>>

----------------------------------------------------------------------------
\* C13: for every integer expires_in of a token response (0, negative and
\* below the floor included), the acquisition that succeeds at instant now
\* sets expiresAt = now + max(expires_in, 30) seconds, and the slot is
\* reported valid immediately after it: the operation goes on to its
\* data-endpoint call with the token just stored.

C13_Lifetime(e) == (IF e > 30 THEN e ELSE 30) * 1000

\* the step stores the token of a token response
C13_Stores(o) ==
    /\ pc[o] = "waitToken" /\ pc'[o] = "gotToken"
    /\ Len(log'[o]) = Len(log[o]) + 1
    /\ log'[o][Len(log'[o])].e = "tokResp"

C13_Step ==
    \A o \in Ops : C13_Stores(o) =>
        /\ acquired' # <<>> /\ acquired'[1].at = now /\ now' = now
        /\ tokenData' # <<>>
        /\ tokenData'[1].accessToken = log'[o][Len(log'[o])].t
        /\ tokenData'[1].expiresAt = now + C13_Lifetime(acquired'[1].expires_in)
        /\ IsTokenValid(tokenData', now')
        /\ accessToken'[o] = tokenData'[1].accessToken

C13_Stored ==
    (tokenData # <<>> /\ acquired # <<>>) =>
        /\ tokenData[1].expiresAt = CachedAt + C13_Lifetime(acquired[1].expires_in)
        /\ tokenData[1].expiresAt >= CachedAt + 30 * 1000
        /\ now = CachedAt => now < tokenData[1].expiresAt - 10 * 1000

C13_FloorKeepsFreshTokenValid == [](C13_Stored) /\ [][C13_Step]_vars

C13_Witness ==
    \E o \in Ops :
        /\ CachedWith(-1) /\ CachedAt > 0
        /\ tokenData[1].expiresAt = CachedAt + 30000
        /\ now = CachedAt
        /\ log[o] # <<>> /\ log[o][Len(log[o])] = Ev("dataCall", 0, tokenData[1].accessToken)

----------------------------------------------------------------------------
\* C14 as stated: an operation that starts less than 49 s after a token with
\* expires_in = 59 was acquired reuses it without any token-endpoint call.

\* o has received no token response: the slot is as o found it or empty
C14_NoTokenResponse(o) == Positions(log[o], "tokResp") = {}

C14_Original ==
    \A o \in Ops :
        (acquired # <<>> /\ acquired[1].expires_in = 59 /\ C14_NoTokenResponse(o)
            /\ log[o] # <<>> /\ log[o][1].e = "cached") =>
            TokenCalls(o) = 0

\* C14 as amended: while a token acquired at t0 with expires_in = 59 is the
\* cached token, an operation that starts less than 49 s after t0 starts
\* without a token-endpoint call and sends that token on its first
\* data-endpoint call (a token-endpoint call follows in that operation only
\* when a 401 is retried), and an operation that starts 49 s or more after t0
\* calls the token endpoint before any data-endpoint call.

C14_Step ==
    \A o \in Ops : (CachedWith(59) /\ C10_Starts(o)) =>
        /\ now < CachedAt + 49 * 1000 =>
               /\ StartsCached(o)
               /\ log'[o] = <<Ev("cached", 0, tokenData[1].accessToken)>>
               /\ issued' = issued
        /\ now >= CachedAt + 49 * 1000 =>
               /\ StartsFresh(o)
               /\ log'[o] = <<Ev("tokCall", 0, "")>>

\* a data-endpoint call carries the token of the entry right before it: the
\* cached token, or the token of the token response just received
C14_Calls ==
    \A o \in Ops : \A i \in Positions(log[o], "dataCall") :
        /\ i > 1
        /\ log[o][i - 1].e \in {"cached", "tokResp"}
        /\ log[o][i - 1].t = log[o][i].t
        /\ log[o][i - 1].e = "tokResp" => log[o][i - 1].s \in 200..299

C14_ReusedFor49Seconds == [](C14_Calls) /\ [][C14_Step]_vars

C14_Witness ==
    \E o \in Ops :
        /\ CachedWith(59)
        /\ now = CachedAt + 49000
        /\ calls = 2 /\ log[o] = <<Ev("tokCall", 0, "")>>

----------------------------------------------------------------------------
\* How an operation ends

\* the last entry of the history of o
Last(o) == log[o][Len(log[o])]

\* the parsed body of a response, null when the body is not JSON
Parsed(body) == IF body = "<html>" THEN "null" ELSE body

\* a 404 that is reported as OrderNotFoundError or PaymentNotFoundError
LookupNotFound(o, status) ==
    status = 404 /\ args[o].op \in {"getOrder", "getTransaction"}

----------------------------------------------------------------------------
\* C15: a non-2xx status s of the data endpoint that is not a retried 401
\* and not a 404 of the order or transaction lookup (a 404 of createPayment
\* or transFer included) ends the operation with a MonCashError whose
\* statusCode is s and whose response is the parsed body, null when the body
\* is not JSON; a non-2xx answer the operation goes on after is a 401 that
\* is retried.

C15_Generic(o) ==
    /\ log[o] # <<>>
    /\ Last(o).e = "dataResp"
    /\ Last(o).s \notin 200..299
    /\ ~LookupNotFound(o, Last(o).s)

C15_GenericCarriesStatus ==
    \A o \in Ops :
        /\ C15_Generic(o) =>
               /\ pc[o] = "failed"
               /\ out[o].st = "err" /\ out[o].name = "MonCashError"
               /\ out[o].hasStatus /\ out[o].status = Last(o).s
               /\ out[o].response = Parsed(Last(o).t)
               /\ out[o].msg = IF Last(o).t = "e1" THEN "gateway message"
                                ELSE "Request failed with status _"
               /\ Last(o).s = 401 => retryCount[o] = maxRetries
        /\ \A i \in Positions(log[o], "dataResp") :
               (log[o][i].s \notin 200..299 /\ i < Len(log[o])) =>
                   /\ log[o][i].s = 401
                   /\ log[o][i + 1].e = "clear"

C15_Witness ==
    \E o \in Ops :
        /\ args[o].op = "createPayment"
        /\ C15_Generic(o) /\ Last(o) = Ev("dataResp", 404, "<html>")
        /\ out[o].status = 404 /\ out[o].response = "null"

----------------------------------------------------------------------------
\* C16: a network failure of the data-endpoint call or of the
\* token-endpoint call ends the operation with a MonCashError that has no
\* status code and carries the cause, and the token slot is left as it was
\* before the failing call: neither waiting for the call nor handling its
\* failure changes it.

C16_Failure(ev) == ev.e \in {"dataNetFail", "tokNetFail"}

C16_Outcome ==
    \A o \in Ops : (log[o] # <<>> /\ C16_Failure(Last(o))) =>
        /\ pc[o] = "failed"
        /\ out[o].st = "err" /\ out[o].name = "MonCashError"
        /\ ~out[o].hasStatus
        /\ out[o].response = "TypeError"
        /\ out[o].msg = IF Last(o).e = "dataNetFail" THEN "fetch failed"
                         ELSE "Failed to get access token"

C16_Step ==
    \A o \in Ops :
        /\ (Handles(o, Ev("dataNetFail", 0, "")) \/ Handles(o, Ev("tokNetFail", 0, ""))) =>
               /\ tokenData' = tokenData
               /\ Len(log'[o]) = Len(log[o]) + 1
               /\ pc'[o] = "failed"
        /\ (pc[o] \in {"waitToken", "waitData"} /\ pc'[o] = pc[o]
               /\ log'[o] = log[o]) =>
               tokenData' = tokenData

C16_NetworkFailureWrapped == [](C16_Outcome) /\ [][C16_Step]_vars

C16_Witness ==
    \E o \in Ops :
        /\ log[o] # <<>> /\ Last(o).e = "dataNetFail"
        /\ tokenData # <<>>
        /\ out[o].response = "TypeError" /\ ~out[o].hasStatus
        /\ retryCount[o] = 1

----------------------------------------------------------------------------
\* C17 as stated: an operation that got past its validation completes
\* successfully if and only if its last data-endpoint call was answered 2xx.

\* the last data-endpoint call of o was answered 2xx
C17_LastOk(o) ==
    /\ DataResponses(o) # <<>>
    /\ Len(DataResponses(o)) = DataCalls(o)
    /\ DataResponses(o)[Len(DataResponses(o))].s \in 200..299

----------------------------------------------------------------------------
\* C18: every failure an operation surfaces is a MonCashError or one of its
\* subclasses OrderNotFoundError, PaymentNotFoundError, RequestTimeoutError,
\* whatever the gateway answers.

C18_Classified ==
    {"MonCashError", "OrderNotFoundError", "PaymentNotFoundError", "RequestTimeoutError"}

C18_AllFailuresClassified ==
    \A o \in Ops : pc[o] = "failed" => out[o].name \in C18_Classified

----------------------------------------------------------------------------
\* C19: when the token endpoint answers with a status s that is not a
\* success, the acquisition fails with the error "Authentication failed"
\* carrying s and the parsed body (null when there is none), and the attempt
\* issues no data-endpoint call: the operation fails with that error, or,
\* for a 401 with a retry left, starts its next attempt.

C19_Step ==
    \A o \in Ops, s \in Statuses \ {200}, b \in Bodies :
        Handles(o, Ev("tokResp", s, b)) =>
            IF s = 401 /\ retryCount[o] < maxRetries
            THEN /\ log'[o] = log[o] \o <<Ev("tokResp", s, b), Ev("clear", 0, ""),
                                          Ev("tokCall", 0, "")>>
                 /\ retryCount'[o] = retryCount[o] + 1
            ELSE /\ log'[o] = Append(log[o], Ev("tokResp", s, b))
                 /\ pc'[o] = "failed"
                 /\ out'[o].name = "MonCashError"
                 /\ out'[o].msg = "Authentication failed"
                 /\ out'[o].hasStatus /\ out'[o].status = s
                 /\ out'[o].response = Parsed(b)

\* no data-endpoint call between a refused acquisition and the next attempt
C19_NoDataCall ==
    \A o \in Ops : \A i \in Positions(log[o], "tokResp") :
        log[o][i].s \notin 200..299 =>
            /\ log[o][i - 1].e = "tokCall"
            /\ i < Len(log[o]) => log[o][i + 1].e = "clear"

C19_TokenErrorCarriesStatus == [](C19_NoDataCall) /\ [][C19_Step]_vars

C19_Witness ==
    \E o \in Ops :
        /\ log[o] # <<>> /\ Last(o) = Ev("tokResp", 500, "<html>")
        /\ pc[o] = "failed"
        /\ out[o].status = 500 /\ out[o].response = "null"
        /\ DataCalls(o) = 0

----------------------------------------------------------------------------
\* C20: two operations that start while the token slot is absent each call
\* the token endpoint (the acquisitions are not coalesced).  Whatever the
\* interleaving, the bearer token of every data-endpoint call is a token the
\* gateway issued to this client; and when every token call of the two
\* operations is answered with a token and every data call is answered 2xx,
\* both operations succeed and, these two being the operations called on the
\* client, the slot holds one of the tokens issued to them.

C20_Issued == {TokenNames[i] : i \in 1..issued}

C20_Bearer ==
    \A o \in Ops : \A i \in Positions(log[o], "dataCall") : log[o][i].t \in C20_Issued

\* o has settled and the gateway has accepted all it sent
C20_Accepted(o) ==
    /\ Settles(o)
    /\ log[o] # <<>> /\ log[o][1].e = "tokCall"
    /\ \A i \in 1..Len(log[o]) :
           /\ log[o][i].e \in {"tokCall", "tokResp", "dataCall", "dataResp", "return"}
           /\ log[o][i].e \in {"tokResp", "dataResp"} => log[o][i].s \in 200..299

\* the tokens the token endpoint answered o with
C20_Tokens(o) == {log[o][i].t : i \in Positions(log[o], "tokResp")}

C20_BothSucceed ==
    \A o, p \in Ops : (o # p /\ C20_Accepted(o) /\ C20_Accepted(p)) =>
        /\ pc[o] = "done" /\ pc[p] = "done"
        /\ out[o].st = "ok" /\ out[p].st = "ok"
        /\ C20_Tokens(o) \cup C20_Tokens(p) \subseteq C20_Issued
        /\ calls = 2 =>
               /\ tokenData # <<>>
               /\ tokenData[1].accessToken \in C20_Tokens(o) \cup C20_Tokens(p)

C20_UncoalescedAcquisitions == C20_Bearer /\ C20_BothSucceed

C20_Witness ==
    \E o, p \in Ops :
        /\ o # p /\ C20_Accepted(o) /\ C20_Accepted(p)
        /\ C20_Tokens(o) # C20_Tokens(p)
        /\ pc[o] = "done" /\ pc[p] = "done"
        /\ Holds(tokenData, log[o][2].t)

----------------------------------------------------------------------------
\* C21: every operation that has been called and got past its validation
\* eventually completes, with a result or with an error, also when the
\* gateway never answers one of its HTTP calls, the token-endpoint call
\* included.

C21_InFlight(o) == pc[o] \in {"waitToken", "gotToken", "waitData"}

C21_EveryOperationCompletes == \A o \in Ops : C21_InFlight(o) ~> Settles(o)

----------------------------------------------------------------------------
\* C22: for all credentials over an alphabet with characters of one, two,
\* three and four UTF-8 bytes, base64-decoding what the token request
\* carries after "Basic " gives exactly the UTF-8 bytes of
\* "<clientId>:<clientSecret>".

\* the UTF-8 bytes of the characters of the alphabet, as the standard gives
\* them; a character outside the basic plane is led by its high surrogate
C22_Bytes(u) ==
    CASE u = 97 -> <<97>>
      [] u = 58 -> <<58>>
      [] u = 233 -> <<195, 169>>
      [] u = 8364 -> <<226, 130, 172>>
      [] u = 55357 -> <<240, 159, 152, 128>>

RECURSIVE C22_Expected(_)
C22_Expected(str) ==
    IF str = <<>> THEN <<>>
    ELSE C22_Bytes(Head(str))
         \o C22_Expected(IF Head(str) = 55357 THEN Tail(Tail(str)) ELSE Tail(str))

\* the value of a base64 character, 0 for the padding
C22_Value(ch) ==
    IF ch = "=" THEN 0 ELSE (CHOOSE i \in 1..64 : Base64Alphabet[i] = ch) - 1

\* base64 decoding: four characters make up to three bytes
RECURSIVE C22_Decode(_)
C22_Decode(chars) ==
    IF Len(chars) < 4 THEN <<>>
    ELSE LET v1 == C22_Value(chars[1])
             v2 == C22_Value(chars[2])
             v3 == C22_Value(chars[3])
             v4 == C22_Value(chars[4])
             k == IF chars[3] = "=" THEN 1 ELSE IF chars[4] = "=" THEN 2 ELSE 3
         IN  SubSeq(<<(v1 * 4) + (v2 \div 16), ((v2 % 16) * 16) + (v3 \div 4),
                      ((v3 % 4) * 64) + v4>>, 1, k)
             \o C22_Decode(SubSeq(chars, 5, Len(chars)))

C22_BasicRoundTrips ==
    basic # <<>> =>
        /\ Len(basic) % 4 = 0
        /\ \A i \in 1..Len(basic) :
               basic[i] = "=" \/ \E j \in 1..64 : Base64Alphabet[j] = basic[i]
        /\ C22_Decode(basic) =
               C22_Expected(config.clientId \o <<58>> \o config.clientSecret)

C22_Witness ==
    /\ config = [clientId |-> <<233>>, clientSecret |-> <<55357, 56832, 8364>>]
    /\ basic = <<"w", "6", "k", "6", "8", "J", "+", "Y", "g", "O", "K", "C", "r", "A", "=", "=">>
    /\ \E o \in Ops : pc[o] = "waitToken"

----------------------------------------------------------------------------
\* C23: a retry triggered by a 401 empties the slot and issues the
\* token-endpoint call of the next attempt in one step, with no step of
\* another operation in between; so in every interleaving the data-endpoint
\* call of a retried attempt carries the token of a token response received
\* after the 401, never a token taken from the slot and never the token the
\* 401 rejected (the gateway issues a different token each time).

C23_Step ==
    \A o \in Ops : retryCount'[o] = retryCount[o] + 1 =>
        /\ tokenData' = <<>>
        /\ pc'[o] = "waitToken"
        /\ Len(log'[o]) >= Len(log[o]) + 3
        /\ SubSeq(log'[o], Len(log'[o]) - 1, Len(log'[o])) =
               <<Ev("clear", 0, ""), Ev("tokCall", 0, "")>>
        /\ log'[o][Len(log'[o]) - 2].s = 401
        /\ \A p \in Ops \ {o} : pc'[p] = pc[p] /\ log'[p] = log[p]

C23_Calls ==
    \A o \in Ops : \A c \in Positions(log[o], "clear") :
        /\ c < Len(log[o]) /\ log[o][c + 1].e = "tokCall"
        /\ \A i \in Positions(log[o], "cached") : i < c
        /\ \A d \in Positions(log[o], "dataCall") : d > c =>
               /\ log[o][d - 1].e = "tokResp" /\ log[o][d - 1].s \in 200..299
               /\ log[o][d - 2].e = "tokCall"
               /\ log[o][d].t = log[o][d - 1].t
               /\ \A d0 \in Positions(log[o], "dataCall") :
                      d0 < c => log[o][d0].t # log[o][d].t

C23_RetryAcquiresFreshToken == [](C23_Calls) /\ [][C23_Step]_vars

C23_Witness ==
    \E o, p \in Ops :
        /\ o # p
        /\ Positions(log[o], "clear") # {}
        /\ DataCalls(o) = 2 /\ Last(o) = Ev("dataCall", 0, "t3")
        /\ log[o][3] = Ev("dataCall", 0, "t1")
        /\ \E i \in Positions(log[p], "tokResp") : log[p][i].t = "t2"

----------------------------------------------------------------------------
\* C24 as stated: once the token endpoint has answered an operation with a
\* failure status, the operation does not call the token endpoint again.

C24_Original ==
    \A o \in Ops : \A i \in Positions(log[o], "tokResp") :
        log[o][i].s \notin 200..299 =>
            \A k \in Positions(log[o], "tokCall") : k < i

\* C24 as amended: an operation calls the token endpoint at most once per
\* attempt, at the start of the attempt, and at most maxRetries + 1 times in
\* all; getAccessToken never repeats its call, and a failure of the token
\* endpoint (a status other than 401, a success body that is not JSON, a
\* network failure) ends the operation after that one call; a 401 of the
\* token endpoint is retried like a 401 of the data endpoint while a retry
\* is left, and the next attempt calls the token endpoint again.

C24_TokenFailure(ev) ==
    \/ ev.e \in {"tokNetFail", "tokBadJson"}
    \/ ev.e = "tokResp" /\ ev.s \notin 200..299

C24_OneTokenCallPerAttempt ==
    \A o \in Ops :
        /\ TokenCalls(o) <= retryCount[o] + 1
        /\ TokenCalls(o) <= maxRetries + 1
        /\ \A k \in Positions(log[o], "tokCall") : k = 1 \/ log[o][k - 1].e = "clear"
        /\ \A i \in 1..Len(log[o]) : C24_TokenFailure(log[o][i]) =>
               /\ log[o][i - 1].e = "tokCall"
               /\ IF log[o][i].e = "tokResp" /\ log[o][i].s = 401
                     /\ Cardinality({c \in Positions(log[o], "clear") : c < i}) < maxRetries
                  THEN /\ i + 2 <= Len(log[o])
                       /\ log[o][i + 1].e = "clear"
                       /\ log[o][i + 2].e = "tokCall"
                  ELSE i = Len(log[o]) /\ pc[o] = "failed"

C24_Witness ==
    \E o \in Ops :
        /\ maxRetries = 3 /\ TokenCalls(o) = 4
        /\ pc[o] = "failed" /\ Last(o).e = "tokResp" /\ Last(o).s = 401
        /\ DataCalls(o) = 1

----------------------------------------------------------------------------
\* C25: whenever the token slot is reported valid, the cached access token
\* is a non-empty token the token endpoint issued to this client, and every
\* data-endpoint call carries such a token as its bearer token, never an
\* absent or empty one.

C25_IssuedToken(t) == t \notin {"", "undefined"} /\ t \in C20_Issued

C25_ValidCacheHoldsIssuedToken ==
    /\ IsTokenValid(tokenData, now) => C25_IssuedToken(tokenData[1].accessToken)
    /\ \A o \in Ops :
           /\ pc[o] \in {"gotToken", "waitData"} => C25_IssuedToken(accessToken[o])
           /\ \A i \in Positions(log[o], "dataCall") : C25_IssuedToken(log[o][i].t)

----------------------------------------------------------------------------
\* C26 as stated: the step that handles a 401 of the data endpoint empties
\* the slot only if the slot still holds the token that call carried.

C26_Original_Step ==
    \A o \in Ops, b \in Bodies :
        (Handles(o, Ev("dataResp", 401, b)) /\ tokenData # <<>> /\ tokenData' = <<>>) =>
            Holds(tokenData, accessToken[o])

C26_Original == [][C26_Original_Step]_vars

\* C26 as amended: when the operations of several callers interleave, the
\* step that handles a 401 of the data endpoint with a retry left empties the
\* slot whatever it holds, the rejected token or a token another operation
\* cached in the meantime, and issues the token call of the next attempt;
\* on the last attempt it leaves the slot as it is.

C26_Step ==
    \A o \in Ops, b \in Bodies : Handles(o, Ev("dataResp", 401, b)) =>
        IF retryCount[o] < maxRetries
        THEN tokenData' = <<>> /\ pc'[o] = "waitToken"
        ELSE tokenData' = tokenData /\ pc'[o] = "failed"

C26_RetryClearsWhateverIsCached == [][C26_Step]_vars

\* o has sent t1, has been answered 401 and has emptied the slot, which then
\* held the token t2 that p cached after t1 was cached
C26_Witness ==
    \E o, p \in Ops :
        /\ o # p /\ calls = 2
        /\ SubSeq(log[o], 2, Len(log[o])) =
               <<Ev("tokResp", 200, "t1"), Ev("dataCall", 0, "t1"),
                 Ev("dataResp", 401, "e1"), Ev("clear", 0, ""), Ev("tokCall", 0, "")>>
        /\ \E i \in Positions(log[p], "tokResp") : log[p][i] = Ev("tokResp", 200, "t2")
        /\ Positions(log[p], "clear") = {}
        /\ tokenData = <<>>

----------------------------------------------------------------------------
\* C27 as stated: the step that handles a failed token acquisition (a status
\* that is not a success, a success body that is not JSON, a network
\* failure) leaves the token slot as it is, whatever the status.

\* the step handles the failure of the token acquisition of o
C27_HandlesFailure(o) ==
    \/ Handles(o, Ev("tokNetFail", 0, ""))
    \/ \E s \in Statuses : Handles(o, Ev("tokBadJson", s, ""))
    \/ \E s \in Statuses \ {200}, b \in Bodies : Handles(o, Ev("tokResp", s, b))

C27_Original_Step == \A o \in Ops : C27_HandlesFailure(o) => tokenData' = tokenData

C27_Original == [][C27_Original_Step]_vars

\* C27 as amended: getAccessToken writes the slot only when it stores a
\* token; the step that handles a failed acquisition leaves the slot as it
\* is, also when other operations are in flight, except for a 401 of the
\* token endpoint with a retry left, where makeRequest empties the slot
\* (whatever another operation has cached there) before its next attempt.

C27_Retried401(o) ==
    /\ retryCount[o] < maxRetries
    /\ \E b \in Bodies : Handles(o, Ev("tokResp", 401, b))

C27_Step ==
    \A o \in Ops : C27_HandlesFailure(o) =>
        /\ acquired' = acquired /\ issued' = issued
        /\ IF C27_Retried401(o)
           THEN tokenData' = <<>> /\ pc'[o] = "waitToken"
           ELSE tokenData' = tokenData /\ pc'[o] = "failed"

C27_FailedAcquisitionKeepsSlot == [][C27_Step]_vars

C27_Witness ==
    \E o, p \in Ops :
        /\ o # p
        /\ pc[o] = "failed" /\ log[o] # <<>> /\ Last(o).e = "tokBadJson"
        /\ \E i \in Positions(log[p], "tokResp") :
               log[p][i].s = 200 /\ Holds(tokenData, log[p][i].t)
        /\ pc[p] = "waitData"

====
